---------------------------- MODULE Spec2Model ----------------------------
(***************************************************************************)
(* FileToVideo: the frame pipeline of encode() and decode().               *)
(*                                                                         *)
(* Geometry.  The program fixes dotSize = 8 on a 1920 x 1080 frame, which  *)
(* gives processedBytesPerFrame = 12150.  The model keeps every formula of *)
(* the source but evaluates it on a 16 x 12 frame with dotSize = 2, which  *)
(* gives processedBytesPerFrame = 18 (still larger than twice the 8-byte   *)
(* length header, so every regime of the length arithmetic exists).  The   *)
(* literals the source hard-codes from its geometry are written here as    *)
(* the expressions they stand for:                                         *)
(*     12150 = processedBytesPerFrame     12142 = processedBytesPerFrame-8 *)
(*     7680  = frameWidth * 4             5760  = frameWidth * 3           *)
(*     1080  = frameHeight                24    = dotSize * 3              *)
(*     3     = dotSize / 2 - 1            9     = (dotSize / 2 - 1) * 3    *)
(***************************************************************************)
EXTENDS Integers, Sequences, FiniteSets, TLC

\* ------------------------------------------------------------ bounds
\* Largest source file length (bytes) tried.
MaxLen == 29
\* Largest value of the -t flag tried.
MaxThreads == 2

\* ------------------------------------------------------------ constants
dotSize == 2
frameWidth == 16
frameHeight == 12
HeaderSize == 8
rawBytesPerFrame == frameWidth * frameHeight * 3
processedBytesPerFrame == ((((frameWidth \div dotSize) * frameHeight) \div dotSize) * 3) \div 8
width == frameWidth \div dotSize
height == frameHeight \div dotSize
\* Bytes of the source file: a byte sequence is drawn by its first byte and
\* its length; byte i (1-based) is FileByte(first, i).
FirstBytes == {65, 255}

\* ------------------------------------------------------------ helpers
Min(a, b) == IF a < b THEN a ELSE b

Pow2(n) == 2 ^ n

\* Go's a[lo:hi] on a 1-based TLA+ sequence (0-based bounds lo, hi).
Slice(s, lo, hi) == [i \in 1..(hi - lo) |-> s[lo + i]]

\* Go's % truncates toward zero.
GoMod(a, b) == IF a >= 0 THEN a % b ELSE 0 - ((0 - a) % b)

\* math.Ceil(float64(a)/float64(b)) for 0 <= a, 0 < b (exact below 2^53).
CeilDiv(a, b) == (a + b - 1) \div b

RECURSIVE ShiftRight8(_, _)
\* n >> (8 * k)
ShiftRight8(n, k) == IF k = 0 THEN n ELSE ShiftRight8(n \div 256, k - 1)

\* binary.BigEndian.PutUint64
PutUint64(n) == [i \in 1..HeaderSize |-> ShiftRight8(n, HeaderSize - i) % 256]

RECURSIVE Uint64(_)
\* binary.BigEndian.Uint64
Uint64(b) == IF b = <<>> THEN 0 ELSE 256 * Uint64(SubSeq(b, 1, Len(b) - 1)) + b[Len(b)]

FileByte(first, i) == (first + 37 * (i - 1)) % 256

FileContent(first, L) == [i \in 1..L |-> FileByte(first, i)]

\* ------------------------------------------------------------ chunker
\* encode: bytes = append(bytesLength, bytes...)
WithHeader(bytes) == PutUint64(Len(bytes)) \o bytes

RECURSIVE RawFramesFrom(_, _)
\* for i := 0; i < length; i += processedBytesPerFrame { ... }, from i on.
RawFramesFrom(all, i) ==
  IF i < Len(all)
    THEN LET end == Min(i + processedBytesPerFrame, Len(all))
         IN <<Slice(all, i, end)>> \o RawFramesFrom(all, i + processedBytesPerFrame)
    ELSE <<>>

\* RawFrames with the loop condition i+processedBytesPerFrame <= length: the
\* final short chunk is left out.
RawFramesWholeOnly(bytes) ==
  LET all == WithHeader(bytes)
      n == Len(all) \div processedBytesPerFrame
  IN [k \in 1..n |->
        Slice(all, (k - 1) * processedBytesPerFrame, k * processedBytesPerFrame)]

\* encode: the rawFrames loop.
RawFrames(bytes) == RawFramesFrom(WithHeader(bytes), 0)

\* ------------------------------------------------------------ transforms
\* Bit b (0-based, most significant bit of byte 0 first) of a payload.
BitAt(frame, b) == (frame[(b \div 8) + 1] \div Pow2(7 - (b % 8))) % 2

\* serializer: the RGBA bitmap of one payload.  Macro-dot k takes payload
\* bits 3k, 3k+1, 3k+2; the loop stops after the payload's last bit, the dot
\* holding it is still painted (channels past the last bit stay 0), later
\* dots and every alpha byte keep the buffer's zero.
\* PackedChannel leaving the outer loop before the last macro-dot is mapped
\* when the payload ends inside it: a dot is painted only if all three of
\* its bits lie in the payload.
PackedChannelWholeDots(frame, k, ch) ==
  LET b == 3 * k + ch
  IN IF ch < 3 /\ 3 * k + 2 < 8 * Len(frame) /\ BitAt(frame, b) = 1 THEN 255 ELSE 0

PackedChannel(frame, k, ch) ==
  LET b == 3 * k + ch
  IN IF ch < 3 /\ b < 8 * Len(frame) /\ BitAt(frame, b) = 1 THEN 255 ELSE 0

Pack(frame) ==
  [p \in 1..(width * height * 4 * dotSize * dotSize) |->
     LET o == p - 1
         column == o \div (frameWidth * 4)
         row == (o % (frameWidth * 4)) \div 4
         k == (column \div dotSize) * width + (row \div dotSize)
     IN PackedChannel(frame, k, o % 4)]

\* The codec between the two runs, taken as lossless: rgba in, rgb24 out.
Codec(pixelData) ==
  [p \in 1..rawBytesPerFrame |-> pixelData[((p - 1) \div 3) * 4 + ((p - 1) % 3) + 1]]

\* frame digester: the sample that decides output bit b.  One pixel per
\* macro-dot, at line 3 + 8r and byte 9 + 24c of the source's geometry.
SampleAt(bytes, b) ==
  LET k == b \div 3
      line == (dotSize \div 2 - 1) + (k \div width) * dotSize
      pixel == (dotSize \div 2 - 1) * 3 + (k % width) * dotSize * 3
  IN bytes[line * (frameWidth * 3) + pixel + (b % 3) + 1]

UnpackedBit(bytes, b) == IF SampleAt(bytes, b) >= 128 THEN 1 ELSE 0

Unpack(bytes) ==
  [i \in 1..processedBytesPerFrame |->
     LET B(j) == UnpackedBit(bytes, 8 * (i - 1) + j)
     IN 128 * B(0) + 64 * B(1) + 32 * B(2) + 16 * B(3)
        + 8 * B(4) + 4 * B(5) + 2 * B(6) + B(7)]

\* ------------------------------------------------------------ reorder buffer
\* type frameData
FrameData(id, value) == [frameID |-> id, value |-> value]

NoFrame == FrameData(0 - 1, <<>>)

RECURSIVE SearchLoopReversed(_, _, _, _)
\* SearchLoop with the comparison of the predicate turned round
\* (keys[i] <= frameID).
SearchLoopReversed(keys, frameID, i, j) ==
  IF i < j
    THEN LET h == (i + j) \div 2
         IN IF ~(keys[h + 1] <= frameID)
              THEN SearchLoopReversed(keys, frameID, h + 1, j)
              ELSE SearchLoopReversed(keys, frameID, i, h)
    ELSE i

RECURSIVE SearchLoop(_, _, _, _)
\* sort.Search(n, func(i) bool { return keys[i] >= frameID }): binary search
\* for the smallest 0-based index whose key is >= frameID.
SearchLoop(keys, frameID, i, j) ==
  IF i < j
    THEN LET h == (i + j) \div 2
         IN IF ~(keys[h + 1] >= frameID)
              THEN SearchLoop(keys, frameID, h + 1, j)
              ELSE SearchLoop(keys, frameID, i, h)
    ELSE i

SortSearch(keys, frameID) == SearchLoop(keys, frameID, 0, Len(keys))

\* keys = append(keys, 0); copy(keys[index+1:], keys[index:]); keys[index] = frameID
InsertKey(keys, frameID) ==
  LET index == SortSearch(keys, frameID)
  IN SubSeq(keys, 1, index) \o <<frameID>> \o SubSeq(keys, index + 1, Len(keys))

\* buffer[frameID] = value
MapPut(buffer, frameID, value) ==
  [k \in (DOMAIN buffer) \cup {frameID} |-> IF k = frameID THEN value ELSE buffer[k]]

\* delete(buffer, frameID)
MapDelete(buffer, frameID) == [k \in (DOMAIN buffer) \ {frameID} |-> buffer[k]]

EmptyMap == [k \in {} |-> <<>>]

\* The else branch of both reorder loops: remember a frame that is not the
\* wanted one.
BufferFrame(st, frame) ==
  [st EXCEPT !.buffer = MapPut(st.buffer, frame.frameID, frame.value),
             !.keys = InsertKey(st.keys, frame.frameID),
             !.keysLen = st.keysLen + 1]

\* ------------------------------------------------------------ encode: emitter
\* ffmpegInstance's locals after cmd.Start; out collects, in order, the
\* frames handed to stdin.Write while one received frame is handled.
\* EmitterInit with the cursor of the decode writer (wantedID := 1).
EmitterInitFromOne ==
  [buffer |-> EmptyMap, keys |-> <<>>, keysLen |-> 0, wantedID |-> 1, out |-> <<>>]

EmitterInit ==
  [buffer |-> EmptyMap, keys |-> <<>>, keysLen |-> 0, wantedID |-> 0, out |-> <<>>]

\* EmitterDrain with `if` for `for`: at most one buffered frame is flushed.
EmitterDrainOnce(st) ==
  IF st.keysLen # 0 /\ st.keys[1] = st.wantedID
    THEN [st EXCEPT !.out = Append(st.out, FrameData(st.wantedID, st.buffer[st.wantedID])),
                    !.buffer = MapDelete(st.buffer, st.wantedID),
                    !.keys = Tail(st.keys),
                    !.keysLen = st.keysLen - 1,
                    !.wantedID = st.wantedID + 1]
    ELSE st

RECURSIVE EmitterDrain(_)
\* for keys[0] == wantedID { stdin.Write(buffer[wantedID]); ... }, entered
\* only when keysLen # 0 and left when keysLen reaches 0.
EmitterDrain(st) ==
  IF st.keysLen # 0 /\ st.keys[1] = st.wantedID
    THEN EmitterDrain(
           [st EXCEPT !.out = Append(st.out, FrameData(st.wantedID, st.buffer[st.wantedID])),
                      !.buffer = MapDelete(st.buffer, st.wantedID),
                      !.keys = Tail(st.keys),
                      !.keysLen = st.keysLen - 1,
                      !.wantedID = st.wantedID + 1])
    ELSE st

\* EmitterHandle without the drain loop after a direct write.
EmitterHandleNoDrain(st, frame) ==
  IF frame.frameID = st.wantedID
    THEN [st EXCEPT !.out = <<frame>>, !.wantedID = st.wantedID + 1]
    ELSE BufferFrame([st EXCEPT !.out = <<>>], frame)

\* EmitterHandle without the reorder buffer: every frame is written as it
\* arrives.
EmitterHandleUnordered(st, frame) ==
  [st EXCEPT !.out = <<frame>>, !.wantedID = st.wantedID + 1]

\* The body of `for frame := range framesChanIn` in ffmpegInstance.
EmitterHandle(st, frame) ==
  IF frame.frameID = st.wantedID
    THEN EmitterDrain([st EXCEPT !.out = <<frame>>, !.wantedID = st.wantedID + 1])
    ELSE BufferFrame([st EXCEPT !.out = <<>>], frame)

\* stdin.Write: the codec receives what a successful Write hands it; the
\* returned error is discarded by the caller, so a failed Write only loses
\* the frame.
SinkAccept(stream, out, ok) ==
  IF ok THEN stream \o [i \in 1..Len(out) |-> out[i].value] ELSE stream

FrameIDs(out) == [i \in 1..Len(out) |-> out[i].frameID]

\* ------------------------------------------------------------ decode: file
\* file.Truncate(n): cut, or extend with zero bytes.
Truncate(f, n) == [i \in 1..n |-> IF i <= Len(f) THEN f[i] ELSE 0]

\* file.WriteAt(data, off): bytes past the old end are created; a hole
\* between the old end and off reads as zero.
WriteAt(f, data, off) ==
  LET end == IF Len(data) = 0 \/ off + Len(data) <= Len(f) THEN Len(f) ELSE off + Len(data)
  IN [i \in 1..end |->
        IF i > off /\ i <= off + Len(data) THEN data[i - off]
        ELSE IF i <= Len(f) THEN f[i] ELSE 0]

TruncateOp(n) == [op |-> "truncate", frameID |-> 0, data |-> <<>>, off |-> n]

WriteOp(id, data, off) == [op |-> "write", frameID |-> id, data |-> data, off |-> off]

\* Whether a call succeeds: truncOK decides file.Truncate, ok file.WriteAt.
OpOK(o, truncOK, ok) == IF o.op = "truncate" THEN truncOK ELSE ok

\* One call on the file; a failing call changes nothing (a failing WriteAt's
\* error is discarded by the caller).
ApplyOp(f, o, truncOK, ok) ==
  IF ~OpOK(o, truncOK, ok) THEN f
  ELSE IF o.op = "truncate" THEN Truncate(f, o.off)
  ELSE WriteAt(f, o.data, o.off)

RECURSIVE ApplyOps(_, _, _, _)
ApplyOps(f, ops, truncOK, ok) ==
  IF ops = <<>> THEN f
  ELSE ApplyOps(ApplyOp(f, Head(ops), truncOK, ok), Tail(ops), truncOK, ok)

\* What the log keeps of a call: the payload is dropped, its length kept.
LogEntry(o, truncOK, ok) ==
  [op |-> o.op, frameID |-> o.frameID, off |-> o.off, n |-> Len(o.data),
   ok |-> OpOK(o, truncOK, ok)]

LogEntries(ops, truncOK, ok) == [i \in 1..Len(ops) |-> LogEntry(ops[i], truncOK, ok)]

\* Go's bounds check of s[lo:hi].
SliceOK(s, lo, hi) == 0 <= lo /\ lo <= hi /\ hi <= Len(s)

\* ------------------------------------------------------------ decode: writer
\* The writer goroutine's locals after os.Create; ops collects, in order,
\* the calls made on the file while one received frame is handled, and
\* panicked says that handling it ended in a run-time panic.
WriterInit ==
  [lastFrameOffset |-> 0, lengthInt |-> 0, buffer |-> EmptyMap, keys |-> <<>>,
   keysLen |-> 0, wantedID |-> 1, nextWriteByte |-> processedBytesPerFrame - HeaderSize,
   ops |-> <<>>, panicked |-> FALSE]

\* int(math.Ceil(float64(lengthInt+8)/float64(processedBytesPerFrame))) - 1
LastFrameID(lengthInt) == CeilDiv(lengthInt + HeaderSize, processedBytesPerFrame) - 1

\* lastFrameOffset = (lengthInt - 12142) % 12150
LastFrameOffset(lengthInt) ==
  GoMod(lengthInt - (processedBytesPerFrame - HeaderSize), processedBytesPerFrame)

\* Frame 0 in the first loop: header, Truncate, the write of its payload.
\* truncOK is whether file.Truncate succeeds (its error panics).
WriterFrameZero(st, frameValue, truncOK) ==
  LET lengthInt == Uint64(Slice(frameValue, 0, HeaderSize))
      s1 == [st EXCEPT !.lengthInt = lengthInt,
                       !.lastFrameOffset = LastFrameOffset(lengthInt),
                       !.ops = <<TruncateOp(lengthInt)>>]
  IN IF ~truncOK THEN [s1 EXCEPT !.panicked = TRUE]
     ELSE IF lengthInt < processedBytesPerFrame - HeaderSize
       THEN IF SliceOK(frameValue, HeaderSize, lengthInt)
              THEN [s1 EXCEPT !.ops = Append(s1.ops,
                       WriteOp(0, Slice(frameValue, HeaderSize, lengthInt), 0))]
              ELSE [s1 EXCEPT !.panicked = TRUE]
       ELSE [s1 EXCEPT !.ops = Append(s1.ops,
                       WriteOp(0, Slice(frameValue, HeaderSize, Len(frameValue)), 0))]

\* WriterFirst writing a frame that arrives before frame 0 at once, at its
\* offset, instead of buffering it.
WriterFirstWritesEarly(st, frame, truncOK) ==
  IF frame.frameID # 0
    THEN [st EXCEPT !.ops = <<WriteOp(frame.frameID, frame.value,
                                (processedBytesPerFrame - HeaderSize)
                                + (frame.frameID - 1) * processedBytesPerFrame)>>]
    ELSE WriterFrameZero([st EXCEPT !.ops = <<>>], frame.value, truncOK)

\* The body of the first `for frame := range digestedFramesChan`.
WriterFirst(st, frame, truncOK) ==
  IF frame.frameID # 0
    THEN BufferFrame([st EXCEPT !.ops = <<>>], frame)
    ELSE WriterFrameZero([st EXCEPT !.ops = <<>>], frame.value, truncOK)

RECURSIVE WriterDrainSameOffset(_)
\* WriterDrain without `nextWriteByte += processedBytesPerFrame`.
WriterDrainSameOffset(st) ==
  IF st.keysLen # 0 /\ st.keys[1] = st.wantedID
    THEN WriterDrainSameOffset(
           [st EXCEPT !.ops = Append(st.ops,
                                WriteOp(st.wantedID, st.buffer[st.wantedID], st.nextWriteByte)),
                      !.buffer = MapDelete(st.buffer, st.wantedID),
                      !.keys = Tail(st.keys),
                      !.keysLen = st.keysLen - 1,
                      !.wantedID = st.wantedID + 1])
    ELSE st

RECURSIVE WriterDrain(_)
\* for keys[0] == wantedID { file.WriteAt(buffer[wantedID], nextWriteByte); ... }
WriterDrain(st) ==
  IF st.keysLen # 0 /\ st.keys[1] = st.wantedID
    THEN WriterDrain(
           [st EXCEPT !.ops = Append(st.ops,
                                WriteOp(st.wantedID, st.buffer[st.wantedID], st.nextWriteByte)),
                      !.buffer = MapDelete(st.buffer, st.wantedID),
                      !.keys = Tail(st.keys),
                      !.keysLen = st.keysLen - 1,
                      !.wantedID = st.wantedID + 1,
                      !.nextWriteByte = st.nextWriteByte + processedBytesPerFrame])
    ELSE st

\* if frameID == lastFrame { frame.value = frame.value[:lastFrameOffset] }
TrimLast(st, frame) ==
  IF frame.frameID = LastFrameID(st.lengthInt)
    THEN Slice(frame.value, 0, st.lastFrameOffset)
    ELSE frame.value

\* The body of the second `for frame := range digestedFramesChan`.
WriterHandle(st, frame) ==
  IF frame.frameID = st.wantedID
    THEN IF frame.frameID = LastFrameID(st.lengthInt)
            /\ ~SliceOK(frame.value, 0, st.lastFrameOffset)
           THEN [st EXCEPT !.ops = <<>>, !.panicked = TRUE]
           ELSE WriterDrain(
                  [st EXCEPT !.ops = <<WriteOp(frame.frameID, TrimLast(st, frame),
                                               st.nextWriteByte)>>,
                             !.nextWriteByte = st.nextWriteByte + processedBytesPerFrame,
                             !.wantedID = st.wantedID + 1])
    ELSE BufferFrame([st EXCEPT !.ops = <<>>], frame)

VARIABLES
  phase,          \* which run of the program: "encode", then "decode" of its video
  fileBytes,      \* the source file B
  threads,        \* the -t flag of the current run
  rawFrames,      \* encode: the chunks
  encMain,        \* encode: the main goroutine [pc, next]
  rawClosed,      \* encode: close(rawFramesChan) has happened
  inputClosed,    \* encode: close(ffmpegInput) has happened
  serializer,     \* encode: worker -> [pc, frame]
  emitterPc,      \* encode: ffmpegInstance's position
  emitter,        \* encode: ffmpegInstance's locals
  stdinLog,       \* encode: frame IDs passed to stdin.Write, in call order
  stdinFailed,    \* encode: frame IDs whose stdin.Write returned an error
  video,          \* the bitmaps the codec received, in order
  sinkBroken,     \* encode: the codec's stdin pipe no longer accepts writes
  encArrived,     \* encode: frame IDs received by ffmpegInstance, in arrival order
  decMain,        \* decode: the main goroutine's position
  source,         \* decode: the ffmpeg goroutine [pc, frameCount]
  outputClosed,   \* decode: close(ffmpegOutputChan) has happened
  digestedClosed, \* decode: close(digestedFramesChan) has happened
  digester,       \* decode: worker -> [pc, frame]
  writerPc,       \* decode: the writer goroutine's position
  writer,         \* decode: the writer goroutine's locals
  file,           \* decode: the destination file's bytes
  fileLog,        \* decode: the calls made on the destination file, in order
  fileBroken,     \* decode: the destination no longer accepts writes
  crashed,        \* a goroutine panicked: the process is gone
  decArrived      \* decode: frame IDs received by the writer, in arrival order

encVars == <<fileBytes, rawFrames, encMain, rawClosed, inputClosed, serializer,
             emitterPc, emitter, stdinLog, stdinFailed, video, sinkBroken, encArrived>>

decVars == <<decMain, source, outputClosed, digestedClosed, digester, writerPc, writer,
             file, fileLog, fileBroken, crashed, decArrived>>

vars == <<phase, threads, encVars, decVars>>

Workers == 1..threads

\* ------------------------------------------------------------ encode: steps
\* The state after construction, for a source file whose length is drawn
\* from lengths.
InitFor(lengths) ==
  /\ phase = "encode"
  /\ \E L \in lengths : \E first \in FirstBytes : fileBytes = FileContent(first, L)
  /\ threads \in 1..MaxThreads
  /\ rawFrames = RawFrames(fileBytes)
  /\ encMain = [pc |-> "submit", next |-> 0]
  /\ rawClosed = FALSE
  /\ inputClosed = FALSE
  /\ serializer = [w \in 1..threads |-> [pc |-> "recv", frame |-> NoFrame]]
  /\ emitterPc = "start"
  /\ emitter = EmitterInit
  /\ stdinLog = <<>>
  /\ stdinFailed = {}
  /\ video = <<>>
  /\ sinkBroken = FALSE
  /\ encArrived = <<>>
  /\ decMain = "idle"
  /\ source = [pc |-> "idle", frameCount |-> 0]
  /\ outputClosed = FALSE
  /\ digestedClosed = FALSE
  /\ digester = [w \in 1..threads |-> [pc |-> "idle", frame |-> NoFrame]]
  /\ writerPc = "idle"
  /\ writer = WriterInit
  /\ file = <<>>
  /\ fileLog = <<>>
  /\ fileBroken = FALSE
  /\ crashed = FALSE
  /\ decArrived = <<>>

Init == InitFor(0..MaxLen)

\* Files long enough for four frames.
MaxLongLen == 47

LongInit == InitFor((MaxLongLen - 1)..MaxLongLen)

\* rawFramesChan <- frameData{frameID: id, value: frame}, met by a serializer
\* at its range; the serializer then packs the frame and stands at its send.
EncSubmit(w) ==
  /\ phase = "encode"
  /\ encMain.pc = "submit"
  /\ encMain.next < Len(rawFrames)
  /\ serializer[w].pc = "recv"
  /\ serializer' = [serializer EXCEPT ![w] =
        [pc |-> "send",
         frame |-> FrameData(encMain.next, Pack(rawFrames[encMain.next + 1]))]]
  /\ encMain' = [encMain EXCEPT !.next = encMain.next + 1]
  /\ UNCHANGED decVars
  /\ UNCHANGED <<phase, threads, fileBytes, rawFrames, rawClosed, inputClosed,
                 emitterPc, emitter, stdinLog, stdinFailed, video, sinkBroken, encArrived>>

\* close(rawFramesChan); main then stands at serializerWaitGroup.Wait().
EncCloseRaw ==
  /\ phase = "encode"
  /\ encMain.pc = "submit"
  /\ encMain.next = Len(rawFrames)
  /\ rawClosed' = TRUE
  /\ encMain' = [encMain EXCEPT !.pc = "waitSerializers"]
  /\ UNCHANGED decVars
  /\ UNCHANGED <<phase, threads, fileBytes, rawFrames, inputClosed, serializer,
                 emitterPc, emitter, stdinLog, stdinFailed, video, sinkBroken, encArrived>>

\* A serializer's range ends on the closed channel: deferred wg.Done().
EncSerializerExit(w) ==
  /\ phase = "encode"
  /\ rawClosed
  /\ serializer[w].pc = "recv"
  /\ serializer' = [serializer EXCEPT ![w].pc = "done"]
  /\ UNCHANGED decVars
  /\ UNCHANGED <<phase, threads, fileBytes, rawFrames, encMain, rawClosed, inputClosed,
                 emitterPc, emitter, stdinLog, stdinFailed, video, sinkBroken, encArrived>>

\* ffmpegInstance up to its range loop: StdinPipe, Start.
EncEmitterStart ==
  /\ phase = "encode"
  /\ emitterPc = "start"
  /\ emitterPc' = "loop"
  /\ UNCHANGED decVars
  /\ UNCHANGED <<phase, threads, fileBytes, rawFrames, encMain, rawClosed, inputClosed,
                 serializer, emitter, stdinLog, stdinFailed, video, sinkBroken, encArrived>>

\* EncDeliver with a reorder buffer of capacity `threads`: a frame that would
\* have to be buffered when the buffer already holds that many is not taken.
EncDeliverBounded(w) ==
  /\ phase = "encode"
  /\ serializer[w].pc = "send"
  /\ emitterPc = "loop"
  /\ emitter.keysLen < threads \/ serializer[w].frame.frameID = emitter.wantedID
  /\ \E ok \in (IF sinkBroken THEN {FALSE} ELSE BOOLEAN) :
       LET st == EmitterHandle(emitter, serializer[w].frame)
       IN /\ emitter' = st
          /\ stdinLog' = stdinLog \o FrameIDs(st.out)
          /\ video' = SinkAccept(video, st.out, ok)
          /\ stdinFailed' = IF ok \/ st.out = <<>> THEN stdinFailed
                            ELSE stdinFailed \cup {st.out[i].frameID : i \in 1..Len(st.out)}
          /\ sinkBroken' = (sinkBroken \/ (~ok /\ st.out # <<>>))
  /\ encArrived' = Append(encArrived, serializer[w].frame.frameID)
  /\ serializer' = [serializer EXCEPT ![w] = [pc |-> "recv", frame |-> NoFrame]]
  /\ UNCHANGED decVars
  /\ UNCHANGED <<phase, threads, fileBytes, rawFrames, encMain, rawClosed, inputClosed,
                 emitterPc>>

\* frameProxyChan <- iddFrame, met by ffmpegInstance's range: one iteration
\* of the reorder loop.  The pipe either takes this iteration's writes or is
\* broken from here on.
EncDeliver(w) ==
  /\ phase = "encode"
  /\ serializer[w].pc = "send"
  /\ emitterPc = "loop"
  /\ \E ok \in (IF sinkBroken THEN {FALSE} ELSE BOOLEAN) :
       LET st == EmitterHandle(emitter, serializer[w].frame)
       IN /\ emitter' = st
          /\ stdinLog' = stdinLog \o FrameIDs(st.out)
          /\ video' = SinkAccept(video, st.out, ok)
          /\ stdinFailed' = IF ok \/ st.out = <<>> THEN stdinFailed
                            ELSE stdinFailed \cup {st.out[i].frameID : i \in 1..Len(st.out)}
          /\ sinkBroken' = (sinkBroken \/ (~ok /\ st.out # <<>>))
  /\ encArrived' = Append(encArrived, serializer[w].frame.frameID)
  /\ serializer' = [serializer EXCEPT ![w] = [pc |-> "recv", frame |-> NoFrame]]
  /\ UNCHANGED decVars
  /\ UNCHANGED <<phase, threads, fileBytes, rawFrames, encMain, rawClosed, inputClosed,
                 emitterPc>>

\* EncCloseInput without serializerWaitGroup.Wait(): ffmpegInput is closed
\* while serializers may still hold frames.
EncCloseInputNoWait ==
  /\ phase = "encode"
  /\ encMain.pc = "waitSerializers"
  /\ inputClosed' = TRUE
  /\ encMain' = [encMain EXCEPT !.pc = "waitFfmpeg"]
  /\ UNCHANGED decVars
  /\ UNCHANGED <<phase, threads, fileBytes, rawFrames, rawClosed, serializer,
                 emitterPc, emitter, stdinLog, stdinFailed, video, sinkBroken, encArrived>>

\* serializerWaitGroup.Wait() returns; close(ffmpegInput).
EncCloseInput ==
  /\ phase = "encode"
  /\ encMain.pc = "waitSerializers"
  /\ \A w \in Workers : serializer[w].pc = "done"
  /\ inputClosed' = TRUE
  /\ encMain' = [encMain EXCEPT !.pc = "waitFfmpeg"]
  /\ UNCHANGED decVars
  /\ UNCHANGED <<phase, threads, fileBytes, rawFrames, rawClosed, serializer,
                 emitterPc, emitter, stdinLog, stdinFailed, video, sinkBroken, encArrived>>

\* ffmpegInstance's range ends on the closed channel: stdin.Close, cmd.Wait,
\* deferred wg.Done().
EncEmitterFinish ==
  /\ phase = "encode"
  /\ emitterPc = "loop"
  /\ inputClosed
  /\ emitterPc' = "done"
  /\ UNCHANGED decVars
  /\ UNCHANGED <<phase, threads, fileBytes, rawFrames, encMain, rawClosed, inputClosed,
                 serializer, emitter, stdinLog, stdinFailed, video, sinkBroken, encArrived>>

\* ffmpegWaitGroup.Wait() returns; "Video exported successfully".
EncMainDone ==
  /\ phase = "encode"
  /\ encMain.pc = "waitFfmpeg"
  /\ emitterPc = "done"
  /\ encMain' = [encMain EXCEPT !.pc = "success"]
  /\ UNCHANGED decVars
  /\ UNCHANGED <<phase, threads, fileBytes, rawFrames, rawClosed, inputClosed, serializer,
                 emitterPc, emitter, stdinLog, stdinFailed, video, sinkBroken, encArrived>>

\* ------------------------------------------------------------ decode: steps
\* The program is run again with -d on the video the encode run produced
\* (only a video whose every frame the codec accepted is decoded).
DecStart ==
  /\ phase = "encode"
  /\ encMain.pc = "success"
  /\ ~sinkBroken
  /\ phase' = "decode"
  /\ \E t \in 1..MaxThreads :
       /\ threads' = t
       /\ digester' = [w \in 1..t |-> [pc |-> "recv", frame |-> NoFrame]]
  /\ decMain' = "waitFfmpeg"
  /\ source' = [pc |-> "start", frameCount |-> 0]
  /\ writerPc' = "create"
  /\ UNCHANGED <<encVars, outputClosed, digestedClosed, writer, file, fileLog,
                 fileBroken, crashed, decArrived>>

\* The ffmpeg goroutine: cmd.StdoutPipe and cmd.Start.  On either error it
\* prints and returns; wg.Done() is not reached.
DecSourceStart ==
  /\ phase = "decode" /\ ~crashed
  /\ source.pc = "start"
  /\ \E started \in BOOLEAN :
       source' = [source EXCEPT !.pc = IF started THEN "reading" ELSE "returned"]
  /\ UNCHANGED <<phase, threads, encVars, decMain, outputClosed, digestedClosed,
                 digester, writerPc, writer, file, fileLog, fileBroken, crashed,
                 decArrived>>

\* A full frame has been read: ffmpegOutputChan <- frameData{frameCount, ...},
\* met by a digester at its range; the digester then unpacks the frame and
\* stands at its send.
DecSourceSend(w) ==
  /\ phase = "decode" /\ ~crashed
  /\ source.pc = "reading"
  /\ source.frameCount < Len(video)
  /\ digester[w].pc = "recv"
  /\ digester' = [digester EXCEPT ![w] =
        [pc |-> "send",
         frame |-> FrameData(source.frameCount,
                             Unpack(Codec(video[source.frameCount + 1])))]]
  /\ source' = [source EXCEPT !.frameCount = source.frameCount + 1]
  /\ UNCHANGED <<phase, threads, encVars, decMain, outputClosed, digestedClosed,
                 writerPc, writer, file, fileLog, fileBroken, crashed, decArrived>>

\* stdout.Read returns io.EOF: cmd.Wait, wg.Done().
DecSourceEOF ==
  /\ phase = "decode" /\ ~crashed
  /\ source.pc = "reading"
  /\ source.frameCount = Len(video)
  /\ source' = [source EXCEPT !.pc = "done"]
  /\ UNCHANGED <<phase, threads, encVars, decMain, outputClosed, digestedClosed,
                 digester, writerPc, writer, file, fileLog, fileBroken, crashed,
                 decArrived>>

\* ffmpegWaitGroup.Wait() returns; close(ffmpegOutputChan).
DecCloseOutput ==
  /\ phase = "decode" /\ ~crashed
  /\ decMain = "waitFfmpeg"
  /\ source.pc = "done"
  /\ outputClosed' = TRUE
  /\ decMain' = "waitDigesters"
  /\ UNCHANGED <<phase, threads, encVars, source, digestedClosed, digester, writerPc,
                 writer, file, fileLog, fileBroken, crashed, decArrived>>

\* A digester's range ends on the closed channel: wg.Done().
DecDigesterExit(w) ==
  /\ phase = "decode" /\ ~crashed
  /\ outputClosed
  /\ digester[w].pc = "recv"
  /\ digester' = [digester EXCEPT ![w].pc = "done"]
  /\ UNCHANGED <<phase, threads, encVars, decMain, source, outputClosed, digestedClosed,
                 writerPc, writer, file, fileLog, fileBroken, crashed, decArrived>>

\* The writer goroutine: os.Create(destFile).
DecWriterCreate ==
  /\ phase = "decode" /\ ~crashed
  /\ writerPc = "create"
  /\ writerPc' = "first"
  /\ UNCHANGED <<phase, threads, encVars, decMain, source, outputClosed, digestedClosed,
                 digester, writer, file, fileLog, fileBroken, crashed, decArrived>>

\* digestedFramesChan <- frame, met by the writer's first range: one
\* iteration of the loop that waits for frame 0.  Nothing touches the file
\* before this loop's Truncate, so the destination cannot be broken yet.
DecDeliverFirst(w) ==
  /\ phase = "decode" /\ ~crashed
  /\ digester[w].pc = "send"
  /\ writerPc = "first"
  /\ \E truncOK \in BOOLEAN, ok \in BOOLEAN :
       LET st == WriterFirst(writer, digester[w].frame, truncOK)
       IN /\ ok => truncOK
          /\ writer' = st
          /\ file' = ApplyOps(file, st.ops, truncOK, ok)
          /\ fileLog' = fileLog \o LogEntries(st.ops, truncOK, ok)
          /\ fileBroken' = (~ok /\ st.ops # <<>>)
          /\ crashed' = st.panicked
          /\ writerPc' = IF digester[w].frame.frameID = 0 THEN "loop" ELSE "first"
  /\ decArrived' = Append(decArrived, digester[w].frame.frameID)
  /\ digester' = [digester EXCEPT ![w] = [pc |-> "recv", frame |-> NoFrame]]
  /\ UNCHANGED <<phase, threads, encVars, decMain, source, outputClosed, digestedClosed>>

\* digestedFramesChan <- frame, met by the writer's second range: one
\* iteration of the reorder loop.
DecDeliver(w) ==
  /\ phase = "decode" /\ ~crashed
  /\ digester[w].pc = "send"
  /\ writerPc = "loop"
  /\ \E ok \in (IF fileBroken THEN {FALSE} ELSE BOOLEAN) :
       LET st == WriterHandle(writer, digester[w].frame)
       IN /\ writer' = st
          /\ file' = ApplyOps(file, st.ops, TRUE, ok)
          /\ fileLog' = fileLog \o LogEntries(st.ops, TRUE, ok)
          /\ fileBroken' = (fileBroken \/ (~ok /\ st.ops # <<>>))
          /\ crashed' = st.panicked
  /\ decArrived' = Append(decArrived, digester[w].frame.frameID)
  /\ digester' = [digester EXCEPT ![w] = [pc |-> "recv", frame |-> NoFrame]]
  /\ UNCHANGED <<phase, threads, encVars, decMain, source, outputClosed, digestedClosed,
                 writerPc>>

\* frameDigesterWaitGroup.Wait() returns; close(digestedFramesChan).
DecCloseDigested ==
  /\ phase = "decode" /\ ~crashed
  /\ decMain = "waitDigesters"
  /\ \A w \in Workers : digester[w].pc = "done"
  /\ digestedClosed' = TRUE
  /\ decMain' = "waitWriter"
  /\ UNCHANGED <<phase, threads, encVars, source, outputClosed, digester, writerPc,
                 writer, file, fileLog, fileBroken, crashed, decArrived>>

\* DecWriterFinish with an audit: the writer returns normally only when no
\* frame is left in the reorder buffer.
DecWriterFinishAudited ==
  /\ phase = "decode" /\ ~crashed
  /\ writerPc \in {"first", "loop"}
  /\ digestedClosed
  /\ writer.keysLen = 0
  /\ writerPc' = "done"
  /\ UNCHANGED <<phase, threads, encVars, decMain, source, outputClosed, digestedClosed,
                 digester, writer, file, fileLog, fileBroken, crashed, decArrived>>

\* The writer's range (either loop; the second ends at once when the first
\* ended on the closed channel) ends: file.Close(), wg.Done().
DecWriterFinish ==
  /\ phase = "decode" /\ ~crashed
  /\ writerPc \in {"first", "loop"}
  /\ digestedClosed
  /\ writerPc' = "done"
  /\ UNCHANGED <<phase, threads, encVars, decMain, source, outputClosed, digestedClosed,
                 digester, writer, file, fileLog, fileBroken, crashed, decArrived>>

\* writerWaitGroup.Wait() returns; "Video decoded successfully".
DecMainDone ==
  /\ phase = "decode" /\ ~crashed
  /\ decMain = "waitWriter"
  /\ writerPc = "done"
  /\ decMain' = "success"
  /\ UNCHANGED <<phase, threads, encVars, source, outputClosed, digestedClosed, digester,
                 writerPc, writer, file, fileLog, fileBroken, crashed, decArrived>>

\* The steps of an encode run.
EncodeNext ==
  \/ \E w \in Workers : EncSubmit(w)
  \/ EncCloseRaw
  \/ \E w \in Workers : EncSerializerExit(w)
  \/ EncEmitterStart
  \/ \E w \in Workers : EncDeliver(w)
  \/ EncCloseInput
  \/ EncEmitterFinish
  \/ EncMainDone

Next ==
  \/ EncodeNext
  \/ DecStart
  \/ DecSourceStart
  \/ \E w \in Workers : DecSourceSend(w)
  \/ DecSourceEOF
  \/ DecCloseOutput
  \/ \E w \in Workers : DecDigesterExit(w)
  \/ DecWriterCreate
  \/ \E w \in Workers : DecDeliverFirst(w)
  \/ \E w \in Workers : DecDeliver(w)
  \/ DecCloseDigested
  \/ DecWriterFinish
  \/ DecMainDone

Spec == Init /\ [][Next]_vars

\* An encode run alone.
EncodeSpec == Init /\ [][EncodeNext]_vars

\* An encode run in which a goroutine that can run eventually does.
FairEncodeSpec == EncodeSpec /\ WF_vars(EncodeNext)

\* An encode run of a long file.
LongEncodeSpec == LongInit /\ [][EncodeNext]_vars

\* ------------------------------------------------------------ properties
\* No injected fault has happened in the decode run: the codec started and
\* every call on the destination file succeeded.
DecNoFault ==
  /\ source.pc # "returned"
  /\ ~fileBroken
  /\ \A i \in 1..Len(fileLog) : fileLog[i].ok

WrittenIDs == {fileLog[i].frameID : i \in {j \in 1..Len(fileLog) : fileLog[j].op = "write"}}

RECURSIVE WriterRunInOrder(_, _, _, _)
\* The file the writer's own loops leave when frames k, k+1, ... of `frames`
\* (0-based) arrive in index order and every call succeeds.
WriterRunInOrder(st, f, frames, k) ==
  IF k >= Len(frames) \/ st.panicked THEN f
  ELSE LET nx == IF k = 0 THEN WriterFirst(st, FrameData(0, frames[1]), TRUE)
                 ELSE WriterHandle(st, FrameData(k, frames[k + 1]))
       IN WriterRunInOrder(nx, ApplyOps(f, nx.ops, TRUE, TRUE), frames, k + 1)

DigestedFrames == [i \in 1..Len(video) |-> Unpack(Codec(video[i]))]

\* C1: round trip.  A decode run (without injected faults) of the video
\* that encode made of B never fails and, when it reports success, has left
\* a file holding exactly B, whatever the worker count and interleaving.
C1_RoundTrip ==
  (phase = "decode" /\ DecNoFault) =>
     /\ ~crashed
     /\ decMain = "success" => file = fileBytes

\* C2: encode ordering.  At every moment the frames handed to stdin.Write
\* are frame 0, 1, 2, ... in this order without gap or repetition, and while
\* the pipe accepts them the codec holds exactly the packed chunks 0..m-1.
C2_EncodeOrdering ==
  /\ \A i \in 1..Len(stdinLog) : stdinLog[i] = i - 1
  /\ Len(stdinLog) <= Len(rawFrames)
  /\ ~sinkBroken => video = [i \in 1..Len(stdinLog) |-> Pack(rawFrames[i])]

\* C2 witness: two workers, three frames, and the frame just handled let
\* buffered later frames out (they had completed before it).
C2_Witness ==
  /\ phase = "encode" /\ threads >= 2
  /\ Len(emitter.out) >= 3
  /\ stdinLog = <<0, 1, 2>>

\* C3: decode reassembly is independent of scheduling.  Once the writer has
\* finished (no injected fault), every frame 0..n-1 has been written and the
\* file equals the one in-order arrival produces.
C3_ReassemblyIndependent ==
  (writerPc = "done" /\ DecNoFault) =>
     /\ WrittenIDs = 0..(Len(video) - 1)
     /\ file = WriterRunInOrder(WriterInit, <<>>, DigestedFrames, 0)

\* C4: length exactness.  Once the writer has finished (no injected fault)
\* the file is exactly as long as the header of frame 0 says, and the last
\* data-bearing frame was written trimmed: no byte of it lies past that
\* length, whether it was written on arrival or from the drain loop.
C4_LengthExact ==
  (writerPc = "done" /\ DecNoFault) =>
     /\ Len(file) = Len(fileBytes)
     /\ \A i \in 1..Len(fileLog) :
          (fileLog[i].op = "write" /\ fileLog[i].frameID = LastFrameID(Len(fileBytes)))
          => fileLog[i].off + fileLog[i].n <= Len(fileBytes)

\* C5: the one-byte file [0x41] is chunked into the single frame
\* <<0,0,0,0,0,0,0,1,0x41>>, and decoding it (no injected fault) does not
\* fail and leaves exactly [0x41].
C5_OneByte ==
  (fileBytes = <<65>>) =>
     /\ rawFrames = << <<0, 0, 0, 0, 0, 0, 0, 1, 65>> >>
     /\ (phase = "decode" /\ DecNoFault) =>
          /\ ~crashed
          /\ decMain = "success" => file = <<65>>

\* C6: a file of k * processedBytesPerFrame - 8 bytes gives exactly k full
\* chunks, and decode writes the final frame k-1 untrimmed.
C6_FrameAligned ==
  ((Len(fileBytes) + HeaderSize) % processedBytesPerFrame = 0) =>
     LET k == (Len(fileBytes) + HeaderSize) \div processedBytesPerFrame
     IN /\ Len(rawFrames) = k
        /\ \A i \in 1..k : Len(rawFrames[i]) = processedBytesPerFrame
        /\ \A i \in 1..Len(fileLog) :
             (fileLog[i].op = "write" /\ fileLog[i].ok /\ fileLog[i].frameID = k - 1) =>
                fileLog[i].n = IF k = 1 THEN processedBytesPerFrame - HeaderSize
                               ELSE processedBytesPerFrame

\* C7: in decode no write to the destination precedes its truncation to the
\* length of frame 0's header: the first call on the file is that Truncate.
C7_TruncateFirst ==
  fileLog # <<>> =>
     /\ fileLog[1].op = "truncate"
     /\ fileLog[1].off = Len(fileBytes)
     /\ (\E i \in 1..Len(fileLog) : fileLog[i].op = "write") => fileLog[1].ok

\* C7 witness: a later frame reached the writer before frame 0 and sits in
\* the buffer, untouched, while frame 0 has been truncated for and written.
C7_Witness ==
  /\ writerPc = "loop"
  /\ 1 \in DOMAIN writer.buffer
  /\ Len(fileLog) = 2 /\ fileLog[2].op = "write" /\ fileLog[2].ok

\* What holds once ffmpegInput is closed: the cursor is one past the last
\* index, the reorder buffer is empty, every chunk went to stdin.Write.
EmitterComplete ==
  /\ emitter.wantedID = Len(rawFrames)
  /\ emitter.keysLen = 0 /\ emitter.keys = <<>> /\ DOMAIN emitter.buffer = {}
  /\ Len(stdinLog) = Len(rawFrames)
  /\ ~sinkBroken => Len(video) = Len(rawFrames)

\* C8: encode completion.  Under fair scheduling the encode run reaches
\* "Video exported successfully", and from the close of ffmpegInput on the
\* emitter is complete.
C8_EncodeCompletes ==
  /\ <>(encMain.pc = "success")
  /\ [](inputClosed => EmitterComplete)

\* C8 witness: a finished two-worker run of three frames in which frames
\* had to wait in the reorder buffer.
C8_Witness ==
  /\ encMain.pc = "success" /\ phase = "encode" /\ threads >= 2
  /\ Len(rawFrames) = 3 /\ Len(emitter.out) >= 2 /\ EmitterComplete

\* C9: write failures are fatal.  The cursor never passes a frame whose
\* write failed, and no run reports success after a failed write.
C9_WriteFailureFatal ==
  /\ \A id \in stdinFailed : emitter.wantedID <= id
  /\ stdinFailed # {} => encMain.pc # "success"
  /\ \A i \in 1..Len(fileLog) :
       (fileLog[i].op = "write" /\ ~fileLog[i].ok) =>
          /\ fileLog[i].frameID >= 1 => writer.wantedID <= fileLog[i].frameID
          /\ decMain # "success"

\* The decode run hangs: the ffmpeg goroutine returned without wg.Done(),
\* main stands at ffmpegWaitGroup.Wait(), every digester and the writer
\* stand at a receive on a channel nobody will close, and no goroutine can
\* take a step any more.
DecStuck ==
  /\ phase = "decode" /\ ~crashed
  /\ source.pc = "returned"
  /\ decMain = "waitFfmpeg"
  /\ \A w \in Workers : digester[w].pc = "recv"
  /\ writerPc = "first"
  /\ ~outputClosed /\ ~digestedClosed
  /\ ~ENABLED Next

\* C10: a codec start failure aborts the decode run; main is never left
\* waiting for the source's wait group with everything else blocked.
C10_StartFailureFatal == ~DecStuck
\* The elements of a sequence, and whether none occurs twice.
SeqSet(q) == {q[i] : i \in 1..Len(q)}

NoDup(q) == \A i, j \in 1..Len(q) : i # j => q[i] # q[j]

\* The frame IDs workers hold between their receive and their send.
HeldBy(worker) == {worker[w].frame.frameID : w \in {v \in DOMAIN worker : worker[v].pc = "send"}}

\* Every frame handed to a worker (IDs 0..handed-1) is either held by exactly
\* one worker or has reached the reassembly stage exactly once.
NoneLostOrTwice(worker, arrived, handed) ==
  /\ NoDup(arrived)
  /\ SeqSet(arrived) \cap HeldBy(worker) = {}
  /\ SeqSet(arrived) \cup HeldBy(worker) = 0..(handed - 1)
  /\ \A v, w \in DOMAIN worker :
       (v # w /\ worker[v].pc = "send" /\ worker[w].pc = "send")
       => worker[v].frame.frameID # worker[w].frame.frameID

\* C11: channel-close protocol.  The channel feeding the workers is closed
\* only after every frame was handed to a worker, the channel into the
\* reassembly stage only after every worker returned (so no worker stands at
\* a send on a closed channel), and every frame handed to a worker is held
\* by one worker or has reached the reassembly stage exactly once; in encode
\* and in decode.
C11_ChannelClose ==
  /\ rawClosed => encMain.next = Len(rawFrames)
  /\ inputClosed => \A w \in DOMAIN serializer : serializer[w].pc = "done"
  /\ NoneLostOrTwice(serializer, encArrived, encMain.next)
  /\ outputClosed => source.frameCount = Len(video)
  /\ digestedClosed => \A w \in DOMAIN digester : digester[w].pc = "done"
  /\ NoneLostOrTwice(digester, decArrived, source.frameCount)

\* C11 witness: both runs closed both channels, with two workers and three
\* frames reaching the writer out of index order.
C11_Witness ==
  /\ inputClosed /\ digestedClosed /\ threads = 2
  /\ Len(encArrived) = 3 /\ Len(decArrived) = 3 /\ decArrived[1] # 0

\* The writer has not written every frame it received: frames remain in the
\* reorder buffer, or a received index is not below the cursor.
DecDataLost ==
  \/ writer.keysLen # 0
  \/ \E id \in SeqSet(decArrived) : id >= 1 /\ id >= writer.wantedID

\* C12: undetected data loss.  When digestedFramesChan is closed while the
\* writer has not written every frame it received, nothing audits this: the
\* writer can close the file and return without a panic, and main then
\* reports success.
C12_NoAudit ==
  /\ (phase = "decode" /\ ~crashed /\ digestedClosed /\ DecDataLost
        /\ writerPc \in {"first", "loop"})
     => ENABLED (DecWriterFinish /\ ~crashed' /\ writerPc' = "done")
  /\ (phase = "decode" /\ DecDataLost /\ writerPc = "done")
     => /\ ~crashed
        /\ decMain = "waitWriter" => ENABLED (DecMainDone /\ decMain' = "success")

\* C12 witness: a decode run has reported success while a frame it received
\* is still in the reorder buffer.
C12_Witness ==
  /\ decMain = "success" /\ ~crashed
  /\ writer.keysLen >= 1 /\ DecDataLost

\* The reorder buffer of one reassembly stage is well formed.
ReorderBufferOK(st) ==
  /\ \A i \in 1..(Len(st.keys) - 1) : st.keys[i] < st.keys[i + 1]
  /\ SeqSet(st.keys) = DOMAIN st.buffer
  /\ st.keysLen = Len(st.keys)

FrameOffset(i) ==
  (processedBytesPerFrame - HeaderSize) + (i - 1) * processedBytesPerFrame

\* C14: decode write offsets.  Frame 0's write is at offset 0 and carries the
\* frame's bytes from index 8 on; every write of a frame i >= 1, on arrival
\* or from the drain loop, is at (frameCapacity - 8) + (i - 1) * frameCapacity;
\* and nextWriteByte = (frameCapacity - 8) + (wantedID - 1) * frameCapacity.
C14_WriteOffsets ==
  /\ \A i \in 1..Len(fileLog) :
       fileLog[i].op = "write" =>
         fileLog[i].off = IF fileLog[i].frameID = 0 THEN 0 ELSE FrameOffset(fileLog[i].frameID)
  /\ writer.nextWriteByte = FrameOffset(writer.wantedID)
  /\ \A w \in DOMAIN digester :
       (writerPc = "first" /\ digester[w].pc = "send" /\ digester[w].frame.frameID = 0) =>
         LET v == digester[w].frame.value
             ops == WriterFrameZero(writer, v, TRUE).ops
         IN \A i \in 1..Len(ops) :
              ops[i].op = "write" =>
                /\ ops[i].off = 0
                /\ ops[i].data = Slice(v, HeaderSize, HeaderSize + Len(ops[i].data))

\* C14 witness: frame 0 was written, then frame 1 on arrival and frame 2 from
\* the drain loop in the same iteration.
C14_Witness ==
  /\ Len(fileLog) = 4
  /\ fileLog[2].op = "write" /\ fileLog[2].frameID = 0
  /\ Len(writer.ops) = 2
  /\ writer.ops[1].frameID = 1 /\ writer.ops[2].frameID = 2
  /\ writer.ops[2].off = FrameOffset(2)

\* A serializer stands at its send with frame 0, so the cursor cannot move.
FrameZeroHeld == \E w \in Workers : serializer[w].pc = "send" /\ serializer[w].frame.frameID = 0

\* C15: reorder buffer growth is not bounded by the worker count.  With two
\* workers, while frame 0 is still held by its serializer, the emitter takes
\* every later frame offered to it into the buffer, whatever the buffer
\* already holds, and the freed worker is handed the next chunk; the buffer
\* holds at most n - 1 frames, and (witness) does hold n - 1.
C15_BufferUnbounded ==
  /\ (threads = 2 /\ emitterPc = "loop" /\ FrameZeroHeld) =>
       \A w \in Workers :
         /\ (serializer[w].pc = "send" /\ serializer[w].frame.frameID # 0) =>
              ENABLED (EncDeliver(w) /\ emitter'.keysLen = emitter.keysLen + 1)
         /\ (serializer[w].pc = "recv" /\ encMain.pc = "submit"
             /\ encMain.next < Len(rawFrames)) => ENABLED EncSubmit(w)
  /\ emitter.keysLen <= Len(rawFrames) - 1

\* C15 witness: two workers, four frames, frames 1..3 buffered while frame 0
\* is still at its serializer's send.
C15_Witness ==
  /\ threads = 2
  /\ Len(rawFrames) = 4
  /\ FrameZeroHeld
  /\ emitter.wantedID = 0
  /\ emitter.keysLen = 3
  /\ emitter.keys = <<1, 2, 3>>

RECURSIVE Concat(_)
Concat(chunks) == IF chunks = <<>> THEN <<>> ELSE Head(chunks) \o Concat(Tail(chunks))

\* C16: chunker.  A file of L bytes gives ceil((L + 8) / C) chunks, all of C
\* bytes but the last, which has 1..C; their concatenation is the 8-byte
\* big-endian L followed by the file; and the chunk at position i is handed
\* to a worker as frame i.
C16_Chunker ==
  LET L == Len(fileBytes)
      C == processedBytesPerFrame
      n == Len(rawFrames)
      all == Concat(rawFrames)
  IN /\ n * C >= L + HeaderSize /\ (n - 1) * C < L + HeaderSize
     /\ \A i \in 1..(n - 1) : Len(rawFrames[i]) = C
     /\ Len(rawFrames[n]) \in 1..C
     /\ Len(all) = HeaderSize + L
     /\ Uint64(Slice(all, 0, HeaderSize)) = L
     /\ Slice(all, HeaderSize, Len(all)) = fileBytes
     /\ \A w \in DOMAIN serializer :
          serializer[w].pc = "send" =>
            /\ serializer[w].frame.frameID \in 0..(n - 1)
            /\ serializer[w].frame.value = Pack(rawFrames[serializer[w].frame.frameID + 1])

\* C16 witness: three chunks, the last one short, all handed out, the last
\* still at its serializer.
C16_Witness ==
  /\ Len(rawFrames) = 3
  /\ Len(rawFrames[3]) < processedBytesPerFrame
  /\ encMain.next = 3
  /\ \E w \in Workers : serializer[w].pc = "send" /\ serializer[w].frame.frameID = 2

\* A payload followed by zero bytes up to the frame capacity.
ZeroPadded(P) == [i \in 1..processedBytesPerFrame |-> IF i <= Len(P) THEN P[i] ELSE 0]

\* C17: transform round trip.  For the payload P of every frame a serializer
\* has packed (1 <= len(P) <= frameCapacity), unpacking the bitmap, alpha
\* dropped, gives frameCapacity bytes: P, then zeros.
C17_TransformRoundTrip ==
  \A w \in DOMAIN serializer :
    serializer[w].pc = "send" =>
      LET P == rawFrames[serializer[w].frame.frameID + 1]
          back == Unpack(Codec(serializer[w].frame.value))
      IN /\ Len(P) \in 1..processedBytesPerFrame
         /\ Len(back) = processedBytesPerFrame
         /\ back = ZeroPadded(P)

\* C17 witness: a packed one-byte payload (8 bits: the third macro-dot
\* carries two channels) whose last two bits are not both zero.
C17_Witness ==
  \E w \in Workers :
    /\ serializer[w].pc = "send"
    /\ LET P == rawFrames[serializer[w].frame.frameID + 1]
       IN Len(P) = 1 /\ P[1] % 4 # 0

\* C18: between two received frames, every index held in the encode
\* emitter's reorder buffer is strictly greater than the cursor wantedID.
C18_BufferedAboveCursor ==
  /\ \A i \in 1..Len(emitter.keys) : emitter.keys[i] > emitter.wantedID
  /\ \A id \in DOMAIN emitter.buffer : id > emitter.wantedID

\* C18 witness: the cursor has moved (frame 0 written, then frame 1 with
\* nothing to drain) and a later frame waits in the buffer.
C18_Witness ==
  /\ emitter.wantedID = 2
  /\ emitter.keys = <<3>>
  /\ encArrived = <<0, 1, 3>>

\* q is 0, 1, 2, ... in this order.
InIndexOrder(q) == \A i \in 1..Len(q) : q[i] = i - 1

\* The frame IDs of the WriteAt calls made on the destination, in call order.
WriteCalls ==
  LET idx == {i \in 1..Len(fileLog) : fileLog[i].op = "write"}
      Nth[k \in 0..Len(fileLog)] ==
        IF k = 0 THEN <<>>
        ELSE IF k \in idx THEN Append(Nth[k - 1], fileLog[k].frameID) ELSE Nth[k - 1]
  IN Nth[Len(fileLog)]

=============================================================================
